---- MODULE Spec2Model ----
(***************************************************************************)
(* Raw LZMA decompression entry point of lzma-rs:                          *)
(*   LzmaParams::read_header            (src/decode/lzma_params.rs)        *)
(*   lzma_decompress_with_options and                                      *)
(*   lzma_decompress_with_options_with_lzma_params   (src/lib.rs)          *)
(*                                                                         *)
(* The input is a finite byte sequence read through a cursor.  TLC's       *)
(* integers are 32-bit signed, so a u32 is kept as two 16-bit limbs        *)
(* <<hi, lo>> and a u64 as four 16-bit limbs, most significant first.      *)
(***************************************************************************)
EXTENDS Integers, Sequences, FiniteSets, TLC

VARIABLES input, options, cursor, pc, params, result, stages,
          sink_written, sink_finished

vars == <<input, options, cursor, pc, params, result, stages,
          sink_written, sink_finished>>

-----------------------------------------------------------------------------
(* Bounds of the model *)

\* longest input considered: the 13-byte header, the 5-byte range coder
\* prologue, and nothing after it
MaxLen == 18

-----------------------------------------------------------------------------
(* Values *)

None == <<"None">>
Some(v) == <<"Some", v>>

\* Unsigned comparison of two limb sequences of the same length.
RECURSIVE LimbsLt(_, _)
LimbsLt(a, b) ==
    IF a = <<>> THEN FALSE
    ELSE \/ Head(a) < Head(b)
         \/ Head(a) = Head(b) /\ LimbsLt(Tail(a), Tail(b))

\* the four bytes taken most significant first
BigEndianU32(bs) == <<bs[2] + 256 * bs[1], bs[4] + 256 * bs[3]>>

\* byteorder::ReadBytesExt::read_u32::<LittleEndian> on four bytes
LittleEndianU32(bs) == <<bs[3] + 256 * bs[4], bs[1] + 256 * bs[2]>>

\* byteorder::ReadBytesExt::read_u64::<LittleEndian> on eight bytes
LittleEndianU64(bs) ==
    <<bs[7] + 256 * bs[8], bs[5] + 256 * bs[6],
      bs[3] + 256 * bs[4], bs[1] + 256 * bs[2]>>

\* the literal 0x1000 of the dictionary clamp
MinDictSize == <<0, 4096>>

\* the literal 0xFFFF_FFFF_FFFF_FFFF
MarkerMandatory == <<65535, 65535, 65535, 65535>>

\* the literal 225
PropsLimit == 225

\* error::Result values
Pending == [kind |-> "Pending", msg |-> ""]
Ok == [kind |-> "Ok", msg |-> ""]
Err(k, m) == [kind |-> k, msg |-> m]

-----------------------------------------------------------------------------
(* The reader *)

\* the reader holds at least n more bytes
Avail(n) == cursor + n <= Len(input)

\* the next n bytes of the reader
Bytes(n) == SubSeq(input, cursor + 1, cursor + n)

\* A read that hits the end of the input fails; how much of the remaining
\* input it consumed first depends on the reader.
FailedRead == cursor' \in cursor..Len(input)

-----------------------------------------------------------------------------
(* Inputs *)

Take(s, n) == SubSeq(s, 1, IF n < Len(s) THEN n ELSE Len(s))

PropsVals == {0, 93, 224, 225, 255}

DictFields == { <<0, 0, 0, 0>>, <<255, 15, 0, 0>>, <<0, 16, 0, 0>>,
                <<0, 0, 16, 0>>, <<255, 255, 255, 255>> }

SizeFields == { <<255, 255, 255, 255, 255, 255, 255, 255>>,
                <<0, 0, 0, 0, 0, 0, 0, 0>>,
                <<6, 0, 0, 0, 0, 0, 0, 0>>,
                <<255, 255, 255, 255, 255, 255, 255, 127>> }

Payloads == { <<0, 131, 255, 251, 255, 255, 192>>,
              <<1, 0, 0, 0, 0, 0, 0>> }

ProvidedSizes == { None, Some(<<0, 0, 0, 6>>), Some(MarkerMandatory) }

UnpackedSizes ==
    {<<"ReadFromHeader">>}
      \cup {<<"ReadHeaderButUseProvided", x>> : x \in ProvidedSizes}
      \cup {<<"UseProvided", x>> : x \in ProvidedSizes}

Memlimits == { None, Some(<<0, 4095>>), Some(<<0, 4096>>), Some(<<16, 0>>) }

OptionsVals == [unpacked_size : UnpackedSizes, memlimit : Memlimits]

ScenarioA == <<0, 0, 16, 0>> \o <<255, 255, 255, 255, 255, 255, 255, 255>>
               \o <<0, 131, 255, 251, 255, 255, 192>>

Streams ==
    { Take(<<p>> \o d \o s \o t, n) :
        p \in PropsVals, d \in DictFields, s \in SizeFields,
        t \in Payloads, n \in 0..MaxLen }
      \cup { Take(<<p>> \o ScenarioA, n) : p \in 0..255, n \in {1, 5, 13, MaxLen} }

NoParams == [lc |-> 0, lp |-> 0, pb |-> 0, dict_size |-> <<0, 0>>,
             unpacked_size |-> None]

Init ==
    /\ input \in Streams
    /\ options \in OptionsVals
    /\ cursor = 0
    /\ pc = "read_props"
    /\ params = NoParams
    /\ result = Pending
    /\ stages = <<>>
    /\ sink_written = FALSE
    /\ sink_finished = 0

-----------------------------------------------------------------------------
(* LzmaParams::read_header *)

\* off by one: 225 is accepted
PropsValidInclusive(props) == props <= PropsLimit

PropsValid(props) == props < PropsLimit

\* lc and lp taken with each other's modulus
PropertiesSwapped(props) ==
    LET pb0 == props
        lc == pb0 % 5
        pb1 == pb0 \div 5
        lp == pb1 % 9
        pb2 == pb1 \div 9
    IN [lc |-> lc, lp |-> lp, pb |-> pb2]

\* lc, lp, pb by successive modulus and division of the running value pb
Properties(props) ==
    LET pb0 == props
        lc == pb0 % 9
        pb1 == pb0 \div 9
        lp == pb1 % 5
        pb2 == pb1 \div 5
    IN [lc |-> lc, lp |-> lp, pb |-> pb2]

\* the properties are validated only after the dictionary size was read
ReadPropsCheckLate ==
    /\ pc = "read_props"
    /\ stages' = Append(stages, "read_header")
    /\ IF ~Avail(1)
       THEN /\ FailedRead
            /\ result' = Err("HeaderTooShort", "")
            /\ pc' = "done"
            /\ UNCHANGED params
       ELSE LET props == Bytes(1)[1] IN
            IF ~PropsValid(props)
            THEN IF ~Avail(5)
                 THEN /\ FailedRead
                      /\ result' = Err("HeaderTooShort", "")
                      /\ pc' = "done"
                      /\ UNCHANGED params
                 ELSE /\ cursor' = cursor + 5
                      /\ result' = Err("LzmaError", "LZMA header invalid properties")
                      /\ pc' = "done"
                      /\ UNCHANGED params
            ELSE /\ cursor' = cursor + 1
                 /\ params' = [params EXCEPT !.lc = Properties(props).lc,
                                             !.lp = Properties(props).lp,
                                             !.pb = Properties(props).pb]
                 /\ pc' = "read_dict"
                 /\ UNCHANGED result
    /\ UNCHANGED <<input, options, sink_written, sink_finished>>

ReadProps ==
    /\ pc = "read_props"
    /\ stages' = Append(stages, "read_header")
    /\ IF ~Avail(1)
       THEN /\ FailedRead
            /\ result' = Err("HeaderTooShort", "")
            /\ pc' = "done"
            /\ UNCHANGED params
       ELSE LET props == Bytes(1)[1] IN
            /\ cursor' = cursor + 1
            /\ IF ~PropsValid(props)
               THEN /\ result' = Err("LzmaError", "LZMA header invalid properties")
                    /\ pc' = "done"
                    /\ UNCHANGED params
               ELSE /\ params' = [params EXCEPT !.lc = Properties(props).lc,
                                                !.lp = Properties(props).lp,
                                                !.pb = Properties(props).pb]
                    /\ pc' = "read_dict"
                    /\ UNCHANGED result
    /\ UNCHANGED <<input, options, sink_written, sink_finished>>

DictSize(dict_size_provided) ==
    IF LimbsLt(dict_size_provided, MinDictSize)
    THEN MinDictSize
    ELSE dict_size_provided

ReadDictSize ==
    /\ pc = "read_dict"
    /\ IF ~Avail(4)
       THEN /\ FailedRead
            /\ result' = Err("HeaderTooShort", "")
            /\ pc' = "done"
            /\ UNCHANGED params
       ELSE /\ cursor' = cursor + 4
            /\ params' = [params EXCEPT
                            !.dict_size = DictSize(LittleEndianU32(Bytes(4)))]
            /\ pc' = "read_size"
            /\ UNCHANGED result
    /\ UNCHANGED <<input, options, stages, sink_written, sink_finished>>

\* a size field of zero is taken for "unknown" as well
UnpackedSizeZeroUnknown(unpacked_size_provided) ==
    IF unpacked_size_provided = MarkerMandatory
       \/ unpacked_size_provided = <<0, 0, 0, 0>>
    THEN None
    ELSE Some(unpacked_size_provided)

UnpackedSizeFromHeader(unpacked_size_provided) ==
    IF unpacked_size_provided = MarkerMandatory
    THEN None
    ELSE Some(unpacked_size_provided)

\* only ReadFromHeader consumes the size field
ReadsSizeFieldOnlyFromHeader(unpacked_size) ==
    unpacked_size[1] = "ReadFromHeader"

\* every mode consumes the size field
ReadsSizeFieldAlways(unpacked_size) ==
    unpacked_size[1] \in {"ReadFromHeader", "ReadHeaderButUseProvided", "UseProvided"}

\* the arm of the match on options.unpacked_size reads the size field
ReadsSizeField(unpacked_size) ==
    unpacked_size[1] \in {"ReadFromHeader", "ReadHeaderButUseProvided"}

ReadUnpackedSize ==
    /\ pc = "read_size"
    /\ IF ReadsSizeField(options.unpacked_size)
       THEN IF ~Avail(8)
            THEN /\ FailedRead
                 /\ result' = Err("HeaderTooShort", "")
                 /\ pc' = "done"
                 /\ UNCHANGED params
            ELSE /\ cursor' = cursor + 8
                 /\ params' = [params EXCEPT !.unpacked_size =
                        IF options.unpacked_size[1] = "ReadFromHeader"
                        THEN UnpackedSizeFromHeader(LittleEndianU64(Bytes(8)))
                        ELSE options.unpacked_size[2]]
                 /\ pc' = "new_circular"
                 /\ UNCHANGED result
       ELSE /\ params' = [params EXCEPT !.unpacked_size = options.unpacked_size[2]]
            /\ pc' = "new_circular"
            /\ UNCHANGED <<cursor, result>>
    /\ UNCHANGED <<input, options, stages, sink_written, sink_finished>>

-----------------------------------------------------------------------------
(* lzma_decompress_with_options_with_lzma_params *)

\* the circular buffer rejects a dictionary larger than the memory limit
MemlimitExceeded(dict_size, memlimit) == LimbsLt(memlimit, dict_size)

\* the construction error is recorded but the call goes on
NewCircularNoReturn ==
    /\ pc = "new_circular"
    /\ stages' = Append(stages, "new_circular")
    /\ IF options.memlimit # None
          /\ MemlimitExceeded(params.dict_size, options.memlimit[2])
       THEN result' = Err("LzmaError", "memory limit exceeded")
       ELSE UNCHANGED result
    /\ pc' = "rangecoder"
    /\ UNCHANGED <<input, options, cursor, params, sink_written, sink_finished>>

NewCircular ==
    /\ pc = "new_circular"
    /\ stages' = Append(stages, "new_circular")
    /\ IF options.memlimit # None
          /\ MemlimitExceeded(params.dict_size, options.memlimit[2])
       THEN /\ result' = Err("LzmaError", "memory limit exceeded")
            /\ pc' = "done"
       ELSE /\ pc' = "rangecoder"
            /\ UNCHANGED result
    /\ UNCHANGED <<input, options, cursor, params, sink_written, sink_finished>>

\* RangeDecoder::new reads a prologue of five bytes
PrologueLen == 5

\* the first byte of the prologue is required to be zero
PrologueValid(bs) == bs[1] = 0

\* RangeDecoder::new fails without its error being mapped to LzmaError
RangeDecoderNewUnmapped ==
    /\ pc = "rangecoder"
    /\ stages' = Append(stages, "RangeDecoder::new")
    /\ IF ~Avail(PrologueLen)
       THEN /\ FailedRead
            /\ result' = Err("IoError", "")
            /\ pc' = "done"
       ELSE /\ cursor' = cursor + PrologueLen
            /\ IF ~PrologueValid(Bytes(PrologueLen))
               THEN /\ result' = Err("IoError", "")
                    /\ pc' = "done"
               ELSE /\ pc' = "process"
                    /\ UNCHANGED result
    /\ UNCHANGED <<input, options, params, sink_written, sink_finished>>

\* RangeDecoder::new(input), any error of which becomes
\* LzmaError("LZMA stream too short: ...")
RangeDecoderNew ==
    /\ pc = "rangecoder"
    /\ stages' = Append(stages, "RangeDecoder::new")
    /\ IF ~Avail(PrologueLen)
       THEN /\ FailedRead
            /\ result' = Err("LzmaError", "LZMA stream too short")
            /\ pc' = "done"
       ELSE /\ cursor' = cursor + PrologueLen
            /\ IF ~PrologueValid(Bytes(PrologueLen))
               THEN /\ result' = Err("LzmaError", "LZMA stream too short")
                    /\ pc' = "done"
               ELSE /\ pc' = "process"
                    /\ UNCHANGED result
    /\ UNCHANGED <<input, options, params, sink_written, sink_finished>>

\* a failure of decoder.process is not propagated
ProcessNoReturn ==
    /\ pc = "process"
    /\ stages' = Append(stages, "process")
    /\ cursor' \in {cursor, Len(input)}
    /\ sink_written' \in BOOLEAN
    /\ \/ UNCHANGED result
       \/ \E e \in {Err("LzmaError", "decode"), Err("IoError", "")} :
             result' = e
    /\ pc' = "finish"
    /\ UNCHANGED <<input, options, params, sink_finished>>

\* decoder.process: decodes symbols from the rest of the input, may flush
\* decoded bytes to the sink, and succeeds or fails
Process ==
    /\ pc = "process"
    /\ stages' = Append(stages, "process")
    /\ cursor' \in {cursor, Len(input)}
    /\ sink_written' \in BOOLEAN
    /\ \/ /\ pc' = "finish"
          /\ UNCHANGED result
       \/ /\ \E e \in {Err("LzmaError", "decode"), Err("IoError", "")} :
                result' = e
          /\ pc' = "done"
    /\ UNCHANGED <<input, options, params, sink_finished>>

\* decoder.output.finish: flushes the buffer to the sink
Finish ==
    /\ pc = "finish"
    /\ stages' = Append(stages, "finish")
    /\ sink_finished' = sink_finished + 1
    /\ \/ /\ result' = Ok
          /\ sink_written' \in {sink_written, TRUE}
       \/ /\ result' = Err("IoError", "")
          /\ UNCHANGED sink_written
    /\ pc' = "done"
    /\ UNCHANGED <<input, options, cursor, params>>

Next ==
    \/ ReadProps
    \/ ReadDictSize
    \/ ReadUnpackedSize
    \/ NewCircular
    \/ RangeDecoderNew
    \/ Process
    \/ Finish

Spec == Init /\ [][Next]_vars

-----------------------------------------------------------------------------
(* Properties *)

\* read_header has returned Ok and the caller went on
HeaderReturnedOk ==
    \/ pc \in {"new_circular", "rangecoder", "process", "finish"}
    \/ pc = "done" /\ Len(stages) >= 2

\* read_header has returned, with Ok or an error
HeaderReturned == pc \notin {"read_props", "read_dict", "read_size"}

\* header bytes 1..4 and 5..12 (the properties byte is byte 0)
DictField == SubSeq(input, 2, 5)
SizeField == SubSeq(input, 6, 13)

\* the little-endian bytes of a u32 and of a u64 held as limbs
ToLeBytes32(v) == <<v[2] % 256, v[2] \div 256, v[1] % 256, v[1] \div 256>>
ToLeBytes64(v) ==
    <<v[4] % 256, v[4] \div 256, v[3] % 256, v[3] \div 256,
      v[2] % 256, v[2] \div 256, v[1] % 256, v[1] \div 256>>

\* the header length the options ask for
RequiredLen ==
    IF options.unpacked_size[1] = "UseProvided" THEN 5 ELSE 13

StageOrder ==
    <<"read_header", "new_circular", "RangeDecoder::new", "process", "finish">>

IsPrefix(s, t) == Len(s) <= Len(t) /\ s = SubSeq(t, 1, Len(s))

\* C1: a first byte of 225..255 makes read_header return LzmaError, whatever
\* the options, and never Ok; a first byte below 225 never yields the
\* invalid-properties error.
ThmC1 ==
    /\ (Len(input) >= 1 /\ input[1] >= 225 /\ pc # "read_props")
          => /\ pc = "done"
             /\ result.kind = "LzmaError"
             /\ stages = <<"read_header">>
    /\ (Len(input) >= 1 /\ input[1] < 225)
          => result.msg # "LZMA header invalid properties"

WitC1 ==
    /\ pc = "done"
    /\ Len(input) = MaxLen
    /\ input[1] = 225
    /\ options.unpacked_size[1] = "UseProvided"
    /\ result = Err("LzmaError", "LZMA header invalid properties")

\* C2: after a successful read_header on properties byte props in 0..224,
\* lc = props mod 9, lp = (props div 9) mod 5, pb = props div 45, within
\* [0,8], [0,4], [0,4], and (pb*5 + lp)*9 + lc = props.
ThmC2 ==
    HeaderReturnedOk =>
        LET props == input[1] IN
        /\ props \in 0..224
        /\ params.lc = props % 9
        /\ params.lp = (props \div 9) % 5
        /\ params.pb = props \div 45
        /\ params.lc \in 0..8
        /\ params.lp \in 0..4
        /\ params.pb \in 0..4
        /\ (params.pb * 5 + params.lp) * 9 + params.lc = props

WitC2 ==
    /\ HeaderReturnedOk
    /\ input[1] = 93
    /\ params.lc = 3
    /\ params.lp = 0
    /\ params.pb = 2

\* C3: after a successful read_header, dict_size is the little-endian value
\* of header bytes 1..4 raised to at least 4096: a field below 0x1000 gives
\* exactly 0x1000, any other field is returned unchanged.
ThmC3 ==
    HeaderReturnedOk =>
        /\ ~LimbsLt(params.dict_size, <<0, 4096>>)
        /\ IF DictField[4] = 0 /\ DictField[3] = 0 /\ DictField[2] < 16
           THEN params.dict_size = <<0, 4096>>
           ELSE ToLeBytes32(params.dict_size) = DictField

WitC3 ==
    /\ HeaderReturnedOk
    /\ DictField = <<255, 15, 0, 0>>
    /\ params.dict_size = <<0, 4096>>

\* C4: with ReadFromHeader, a successful read_header returns None exactly
\* when header bytes 5..12 are all 0xFF, and otherwise Some of the
\* little-endian value of the field, zero included.
ThmC4 ==
    (HeaderReturnedOk /\ options.unpacked_size[1] = "ReadFromHeader") =>
        /\ params.unpacked_size = None <=> (\A i \in 1..8 : SizeField[i] = 255)
        /\ params.unpacked_size # None =>
              /\ params.unpacked_size[1] = "Some"
              /\ ToLeBytes64(params.unpacked_size[2]) = SizeField

WitC4 ==
    /\ HeaderReturnedOk
    /\ options.unpacked_size[1] = "ReadFromHeader"
    /\ SizeField = <<0, 0, 0, 0, 0, 0, 0, 0>>
    /\ params.unpacked_size = Some(<<0, 0, 0, 0>>)

\* C5: read_header returns HeaderTooShort for an empty input and for every
\* input with a first byte below 225 that is shorter than the header the
\* options ask for (13 bytes, or 5 for UseProvided); an input of at least
\* that length with a first byte below 225 never gives HeaderTooShort.
ThmC5 ==
    /\ HeaderReturned =>
          /\ Len(input) = 0 => result.kind = "HeaderTooShort"
          /\ (Len(input) >= 1 /\ input[1] < 225 /\ Len(input) < RequiredLen)
                => result.kind = "HeaderTooShort"
    /\ (Len(input) >= RequiredLen /\ input[1] < 225)
          => result.kind # "HeaderTooShort"

WitC5 ==
    /\ pc = "done"
    /\ Len(input) = 12
    /\ input[1] = 93
    /\ options.unpacked_size[1] = "ReadHeaderButUseProvided"
    /\ result.kind = "HeaderTooShort"

\* C6: when memlimit is Some(m) with m < dict_size, the call ends with the
\* memory-limit error right after decoder construction: the cursor stays at
\* the end of the header, RangeDecoder::new and process never run, and the
\* sink is neither written nor finished.
ThmC6 ==
    (/\ HeaderReturnedOk
     /\ pc # "new_circular"
     /\ options.memlimit # None
     /\ LimbsLt(options.memlimit[2], params.dict_size))
        => /\ pc = "done"
           /\ result = Err("LzmaError", "memory limit exceeded")
           /\ stages = <<"read_header", "new_circular">>
           /\ cursor = RequiredLen
           /\ ~sink_written
           /\ sink_finished = 0

WitC6 ==
    /\ pc = "done"
    /\ Len(input) = MaxLen
    /\ options.memlimit = Some(<<0, 4096>>)
    /\ params.dict_size = <<16, 0>>
    /\ result = Err("LzmaError", "memory limit exceeded")

\* C7: when read_header succeeded and RangeDecoder::new fails, the call
\* returns LzmaError "LZMA stream too short"; HeaderTooShort is returned
\* only when the input ends inside the header, before any later stage.
ThmC7 ==
    /\ (pc = "done" /\ Len(stages) = 3)
          => result = Err("LzmaError", "LZMA stream too short")
    /\ result.kind = "HeaderTooShort"
          => /\ stages = <<"read_header">>
             /\ Len(input) < RequiredLen

WitC7 ==
    /\ pc = "done"
    /\ Len(input) = 13
    /\ options.unpacked_size[1] = "ReadFromHeader"
    /\ stages = <<"read_header", "new_circular", "RangeDecoder::new">>
    /\ result = Err("LzmaError", "LZMA stream too short")

\* C8: ReadHeaderButUseProvided(x) and UseProvided(x) return x whatever the
\* size field holds, and a successful read_header leaves the cursor at 13
\* for ReadFromHeader and ReadHeaderButUseProvided and at 5 for UseProvided.
ThmC8 ==
    /\ (HeaderReturnedOk /\ options.unpacked_size[1] # "ReadFromHeader")
          => params.unpacked_size = options.unpacked_size[2]
    /\ pc \in {"new_circular", "rangecoder"} =>
          cursor = IF options.unpacked_size[1] = "UseProvided" THEN 5 ELSE 13

WitC8 ==
    /\ pc = "rangecoder"
    /\ options.unpacked_size = <<"ReadHeaderButUseProvided", Some(<<0, 0, 0, 6>>)>>
    /\ SizeField = <<255, 255, 255, 255, 255, 255, 255, 255>>
    /\ params.unpacked_size = Some(<<0, 0, 0, 6>>)
    /\ cursor = 13

\* C9: the stages run in the order read_header, decoder construction,
\* RangeDecoder::new, process, finish; once the call has a result no stage
\* runs; finish runs at most once and only after process succeeded; Ok is
\* returned only when all five stages ran.
ThmC9 ==
    /\ [](/\ IsPrefix(stages, StageOrder)
          /\ sink_finished <= 1
          /\ sink_finished = 1 => stages = StageOrder
          /\ result # Pending => pc = "done"
          /\ result = Ok => stages = StageOrder /\ sink_finished = 1)
    /\ [][result = Pending]_vars

WitC9 ==
    /\ result = Ok
    /\ stages = StageOrder
    /\ sink_finished = 1

\* C10: a first byte of 225..255 gives LzmaError and never HeaderTooShort,
\* even when it is the only byte of the input, and exactly one byte has
\* been consumed: the dictionary-size and unpacked-size fields are not read.
ThmC10 ==
    (Len(input) >= 1 /\ input[1] >= 225 /\ pc # "read_props")
        => /\ result = Err("LzmaError", "LZMA header invalid properties")
           /\ cursor = 1
           /\ params = NoParams

WitC10 ==
    /\ pc = "done"
    /\ Len(input) = 1
    /\ input[1] = 255
    /\ cursor = 1
    /\ result.kind = "LzmaError"

====
